---- MODULE Spec2Model ----
(***************************************************************************)
(* Model of torchrl/collectors/distributed/sync.py: the coordinator        *)
(* DistributedSyncDataCollector (rank 0) and the worker entry point        *)
(* _distributed_init_collection_node (ranks 1..num_workers), communicating *)
(* through point-to-point FIFO channels of the process group.              *)
(***************************************************************************)
EXTENDS Integers, Sequences, FiniteSets, TLC

\* ---- bounds of the model -------------------------------------------------
MaxWorkers == 2
MaxTotalFrames == 4
MaxFramesPerBatch == 4
MaxUpdateInterval == 2
MaxSubEnvs == 2
MaxShutdownCalls == 2
MaxIteratorRuns == 2

VARIABLES
    cfg,              \* constructor arguments (fixed for a behaviour)
    cpc,              \* position of the coordinator / its caller
    self,             \* derived fields set by __init__
    jobs,             \* self.jobs: ranks of the launched workers, in order
    i,                \* loop index of the for loop the coordinator is in
    j,                \* round counter of _iterator_dist
    total_frames,     \* local running total of _iterator_dist
    trackers,         \* pending receives into the output buffer
    tensordict_out,   \* self._tensordict_out, one record per worker slice
    yielded,          \* the batches yielded so far (snapshots)
    runs,             \* number of times iterator() was started
    sends,            \* per rank: rounds in which policy_weights.isend(rank) was called
    wchan,            \* per rank: weight messages in flight, rank 0 -> rank
    dchan,            \* per rank: batch messages in flight, rank -> rank 0
    wpc,              \* per rank: position of the worker process
    wframes,          \* per rank: local variable frames
    wi,               \* per rank: number of batches produced (enumerate index)
    wweights,         \* per rank: round tag of the weights the local policy holds
    result,           \* outcome of the last call made by the caller
    shutdown_calls,   \* number of shutdown() calls made
    recvs,            \* per rank: rounds for which policy_weights.irecv(0) was called
    collector,        \* per rank: closed flag of the local collector, shutdown() calls on it
    views             \* indices of yielded batches that share storage with the buffer

vars == <<cfg, cpc, self, jobs, i, j, total_frames, trackers, tensordict_out,
          yielded, runs, sends, wchan, dchan, wpc, wframes, wi, wweights,
          result, shutdown_calls, recvs, collector, views>>

coordVars == <<cfg, cpc, self, jobs, i, j, total_frames, trackers,
               tensordict_out, yielded, runs, sends, views>>
workerVars == <<wpc, wframes, wi, wweights, recvs, collector>>
chanVars == <<wchan, dchan>>

Ranks == 1..MaxWorkers
Workers == 1..cfg.num_workers

CollectorClasses == {"single", "sync", "async"}
Launchers == {"mp", "submitit"}

\* a coordinator that numbers the workers from the last slice down
Rank_reversed(idx) == cfg.num_workers - idx

\* rank = i + 1 (sync.py lines 410 and 415; i + 1 in _init_worker_dist_mp)
Rank(idx) == idx + 1

NoResult == [op |-> "none", outcome |-> "none", error |-> "none"]
Returned(op) == [op |-> op, outcome |-> "returned", error |-> "none"]
Raised(op, e) == [op |-> op, outcome |-> "raised", error |-> e]

\* issubclass(collector_class, SyncDataCollector): only the single-environment
\* collector; the Multi(a)Sync collectors are not subclasses of it.
IsSyncDataCollector(cls) == cls = "single"

\* everything but the constructor arguments, right after the call of __init__
InitState ==
    /\ cpc = "new"
    /\ self = [total_frames_per_collector |-> 0,
               frames_per_batch_corrected |-> 0,
               batches_since_weight_update |-> <<>>]
    /\ jobs = <<>>
    /\ i = 0
    /\ j = -1
    /\ total_frames = 0
    /\ trackers = {}
    /\ tensordict_out = <<>>
    /\ yielded = <<>>
    /\ runs = 0
    /\ sends = [r \in Ranks |-> <<>>]
    /\ wchan = [r \in Ranks |-> <<>>]
    /\ dchan = [r \in Ranks |-> <<>>]
    /\ wpc = [r \in Ranks |-> "none"]
    /\ wframes = [r \in Ranks |-> 0]
    /\ wi = [r \in Ranks |-> 0]
    /\ wweights = [r \in Ranks |-> -1]
    /\ result = NoResult
    /\ shutdown_calls = 0
    /\ recvs = [r \in Ranks |-> <<>>]
    /\ collector = [r \in Ranks |-> [closed |-> FALSE, shutdowns |-> 0]]
    /\ views = {}

\* constructor arguments of the collection runs: the single-environment
\* collector with one environment per worker (the defaults of lines 201 and
\* 203), launched as local processes
Init ==
    /\ cfg \in [num_workers : 1..MaxWorkers,
                total_frames : 1..MaxTotalFrames,
                frames_per_batch : 1..MaxFramesPerBatch,
                update_interval : 1..MaxUpdateInterval,
                update_after_each_batch : BOOLEAN,
                collector_class : {"single"},
                num_workers_per_collector : {1},
                has_params : BOOLEAN,
                launcher : {"mp"},
                has_submitit : {TRUE},
                collector_closes : {FALSE}]
    /\ InitState

\* constructor arguments of the runs that only collect: as Init, with either
\* kind of local collector (self-closing at exhaustion or not);
\* update_after_each_batch is never read after line 239
InitCollect ==
    /\ cfg \in [num_workers : 1..MaxWorkers,
                total_frames : 1..MaxTotalFrames,
                frames_per_batch : 1..MaxFramesPerBatch,
                update_interval : 1..MaxUpdateInterval,
                update_after_each_batch : {FALSE},
                collector_class : {"single"},
                num_workers_per_collector : {1},
                has_params : BOOLEAN,
                launcher : {"mp"},
                has_submitit : {TRUE},
                collector_closes : BOOLEAN]
    /\ InitState

\* constructor arguments of the construction runs: every strategy, sub-
\* environment count and launcher
InitConstruct ==
    /\ cfg \in [num_workers : 1..MaxWorkers,
                total_frames : 1..MaxTotalFrames,
                frames_per_batch : 1..MaxFramesPerBatch,
                update_interval : {1},
                update_after_each_batch : {FALSE},
                collector_class : CollectorClasses,
                num_workers_per_collector : 1..MaxSubEnvs,
                has_params : {TRUE},
                launcher : Launchers,
                has_submitit : BOOLEAN,
                collector_closes : {FALSE}]
    /\ InitState

\* ---- DistributedSyncDataCollector.__init__ --------------------------------

\* line 234 (negated): total_frames splits evenly across the workers
TotalFramesDispatchable ==
    (cfg.total_frames \div cfg.num_workers) * cfg.num_workers = cfg.total_frames

\* a constructor that tests frames_per_batch against the sub-environment count
FramesPerBatchDispatchable_subenvs ==
    cfg.frames_per_batch % cfg.num_workers_per_collector = 0

\* line 248 (negated): frames_per_batch splits evenly across the workers
FramesPerBatchDispatchable ==
    cfg.frames_per_batch % cfg.num_workers = 0

\* lines 213-269: field assignments and the two divisibility checks
init_validate ==
    /\ cpc = "new"
    /\ LET tfpc == cfg.total_frames \div cfg.num_workers
       IN IF ~TotalFramesDispatchable
          THEN /\ cpc' = "raised"
               /\ result' = Raised("__init__", "RuntimeError:total_frames")
               /\ self' = [self EXCEPT !.total_frames_per_collector = tfpc]
          ELSE IF ~FramesPerBatchDispatchable
          THEN /\ cpc' = "raised"
               /\ result' = Raised("__init__", "RuntimeError:frames_per_batch")
               /\ self' = [self EXCEPT
                      !.total_frames_per_collector = tfpc,
                      !.batches_since_weight_update =
                          [k \in 1..cfg.num_workers |-> 0]]
          ELSE /\ cpc' = "init_workers"
               /\ result' = result
               /\ self' = [total_frames_per_collector |-> tfpc,
                           frames_per_batch_corrected |->
                               cfg.frames_per_batch \div cfg.num_workers,
                           batches_since_weight_update |->
                               [k \in 1..cfg.num_workers |-> 0]]
    /\ UNCHANGED <<recvs, collector, views, cfg, jobs, i, j, total_frames, trackers, tensordict_out,
                   yielded, runs, sends, wchan, dchan, wpc, wframes, wi,
                   wweights, shutdown_calls>>

\* lines 368-382: _init_workers up to the launch loop; the cluster-job
\* launcher needs the submitit library
_init_workers ==
    /\ cpc = "init_workers"
    /\ IF cfg.launcher = "submitit" /\ ~cfg.has_submitit
       THEN /\ cpc' = "raised"
            /\ result' = Raised("__init__", "ImportError")
       ELSE /\ cpc' = "launch"
            /\ result' = result
    /\ jobs' = <<>>
    /\ i' = 0
    /\ UNCHANGED <<recvs, collector, views, cfg, self, j, total_frames, trackers, tensordict_out,
                   yielded, runs, sends, wchan, dchan, wpc, wframes, wi,
                   wweights, shutdown_calls>>

\* lines 383-396 with _init_worker_dist_mp / _init_worker_dist_submitit:
\* one pass of the launch loop starts the worker of rank i + 1
_init_worker_dist ==
    /\ cpc = "launch"
    /\ i < cfg.num_workers
    /\ jobs' = Append(jobs, Rank(i))
    /\ wpc' = [wpc EXCEPT ![Rank(i)] = "launched"]
    /\ i' = i + 1
    /\ cpc' = IF i + 1 = cfg.num_workers THEN "rendezvous" ELSE "launch"
    /\ UNCHANGED <<recvs, collector, views, cfg, self, j, total_frames, trackers, tensordict_out,
                   yielded, runs, sends, wchan, dchan, wframes, wi,
                   wweights, result, shutdown_calls>>

\* lines 273-287 and 101-107: init_process_group returns in every member once
\* all num_workers + 1 ranks have joined
init_process_group ==
    /\ cpc = "rendezvous"
    /\ \A r \in Workers : wpc[r] = "join"
    /\ cpc' = "make_container"
    /\ wpc' = [r \in Ranks |-> IF r \in Workers THEN "recv0" ELSE wpc[r]]
    /\ recvs' = [r \in Ranks |-> IF r \in Workers THEN <<0>> ELSE recvs[r]]
    /\ UNCHANGED <<collector, views, cfg, self, jobs, i, j, total_frames, trackers,
                   tensordict_out, yielded, runs, sends, wchan, dchan,
                   wframes, wi, wweights, result, shutdown_calls>>

\* lines 280-286: timeout=timedelta(MAX_TIME_TO_CONNECT); the rendezvous of
\* rank 0 gives up when some rank has not joined
init_master_timeout ==
    /\ cpc = "rendezvous"
    /\ \E r \in Workers : wpc[r] # "join"
    /\ cpc' = "raised"
    /\ result' = Raised("__init__", "ConnectionTimeout")
    /\ UNCHANGED <<recvs, collector, views, cfg, self, jobs, i, j, total_frames, trackers,
                   tensordict_out, yielded, runs, sends, wchan, dchan, wpc,
                   wframes, wi, wweights, shutdown_calls>>

\* the data of the shape probe: frames_per_batch_corrected frames, no sender
ProbeData == [src |-> 0, seq |-> -1,
              frames |-> self.frames_per_batch_corrected, weights |-> -1]

\* lines 289-317: the output buffer is the probe batch expanded over a
\* leading dimension of num_workers; __init__ then returns
_make_container ==
    /\ cpc = "make_container"
    /\ tensordict_out' = [k \in 0..(cfg.num_workers - 1) |-> ProbeData]
    /\ cpc' = "idle"
    /\ result' = Returned("__init__")
    /\ UNCHANGED <<recvs, collector, views, cfg, self, jobs, i, j, total_frames, trackers, yielded,
                   runs, sends, wchan, dchan, wpc, wframes, wi, wweights,
                   shutdown_calls>>

\* ---- _distributed_init_collection_node (worker of rank r) -----------------

\* lines 61-96: the strategy check, then the local collector is built
node_start(r) ==
    /\ wpc[r] = "launched"
    /\ IF IsSyncDataCollector(cfg.collector_class)
          /\ cfg.num_workers_per_collector # 1
       THEN wpc' = [wpc EXCEPT ![r] = "crashed"]
       ELSE wpc' = [wpc EXCEPT ![r] = "join"]
    /\ UNCHANGED <<recvs, collector, views, cfg, cpc, self, jobs, i, j, total_frames, trackers,
                   tensordict_out, yielded, runs, sends, wchan, dchan,
                   wframes, wi, wweights, result, shutdown_calls>>

\* lines 101-107: the worker's rendezvous times out when rank 0 has given up
node_join_timeout(r) ==
    /\ wpc[r] = "join"
    /\ cpc = "raised"
    /\ wpc' = [wpc EXCEPT ![r] = "crashed"]
    /\ UNCHANGED <<recvs, collector, views, cfg, cpc, self, jobs, i, j, total_frames, trackers,
                   tensordict_out, yielded, runs, sends, wchan, dchan,
                   wframes, wi, wweights, result, shutdown_calls>>

\* policy_weights.is_empty(): the policy exposes no named parameters
\* (lines 75-87)
WeightsEmpty == ~cfg.has_params

\* a receive that returns before the transfer has completed
\* (return_premature=True and no wait)
IrecvReady_premature(r) == TRUE

\* TensorDict.irecv(0) without return_premature (lines 112 and 122) returns
\* once every tensor of the mapping has been received: with an empty mapping
\* at once, otherwise when the next weight message from rank 0 is there
IrecvReady(r) == WeightsEmpty \/ wchan[r] # <<>>

\* lines 112 and 122: policy_weights.irecv(0); the tensors received are the
\* parameters of the local policy
node_irecv(r) ==
    /\ wpc[r] \in {"recv0", "recv"}
    /\ IrecvReady(r)
    /\ IF ~WeightsEmpty /\ wchan[r] # <<>>
       THEN /\ wweights' = [wweights EXCEPT ![r] = Head(wchan[r]).round]
            /\ wchan' = [wchan EXCEPT ![r] = Tail(wchan[r])]
       ELSE UNCHANGED <<wchan, wweights>>
    /\ wpc' = [wpc EXCEPT ![r] = "loop"]
    /\ UNCHANGED <<recvs, collector, views, cfg, cpc, self, jobs, i, j, total_frames, trackers,
                   tensordict_out, yielded, runs, sends, dchan, wframes, wi,
                   result, shutdown_calls>>

\* the local collector built at lines 89-96 with
\* frames_per_batch = _frames_per_batch_corrected and
\* total_frames = total_frames_per_collector: it yields batches of
\* frames_per_batch frames while its frame count is below total_frames
CollectorHasNext(r) == wframes[r] < self.total_frames_per_collector
CollectorBatch(r) == [src |-> r, seq |-> wi[r],
                      frames |-> self.frames_per_batch_corrected,
                      weights |-> wweights[r]]

\* collector.closed once the collector's iteration has ended: whether the
\* collector class closes itself at exhaustion
CollectorClosedAtEnd == cfg.collector_closes

\* a test on the index of the batch just sent instead of the next one
NodeWantsWeights_same_round(frames, idx) ==
    /\ frames < self.total_frames_per_collector
    /\ idx % cfg.update_interval = 0
    /\ ~WeightsEmpty

\* a test that forgets the local frame budget
NodeWantsWeights_no_budget(frames, idx) ==
    /\ (idx + 1) % cfg.update_interval = 0
    /\ ~WeightsEmpty

\* lines 117-121: whether the worker receives weights after batch number idx
NodeWantsWeights(frames, idx) ==
    /\ frames < self.total_frames_per_collector
    /\ (idx + 1) % cfg.update_interval = 0
    /\ ~WeightsEmpty

\* lines 114-122: one pass of the for loop, or its end
node_loop(r) ==
    /\ wpc[r] = "loop"
    /\ IF CollectorHasNext(r)
       THEN LET data == CollectorBatch(r)
                frames == wframes[r] + data.frames
            IN /\ dchan' = [dchan EXCEPT ![r] = Append(dchan[r], data)]
               /\ wframes' = [wframes EXCEPT ![r] = frames]
               /\ wi' = [wi EXCEPT ![r] = wi[r] + 1]
               /\ wpc' = [wpc EXCEPT ![r] =
                            IF NodeWantsWeights(frames, wi[r])
                            THEN "recv" ELSE "loop"]
               /\ recvs' = IF NodeWantsWeights(frames, wi[r])
                           THEN [recvs EXCEPT ![r] = Append(recvs[r], wi[r] + 1)]
                           ELSE recvs
               /\ UNCHANGED collector
       ELSE /\ wpc' = [wpc EXCEPT ![r] = "finish"]
            /\ collector' = [collector EXCEPT ![r].closed = CollectorClosedAtEnd]
            /\ UNCHANGED <<dchan, wframes, wi, recvs>>
    /\ UNCHANGED <<views, cfg, cpc, self, jobs, i, j, total_frames, trackers,
                   tensordict_out, yielded, runs, sends, wchan, wweights,
                   result, shutdown_calls>>

\* a worker that shuts its collector down whatever the closed flag says
node_return_unconditional(r) ==
    /\ wpc[r] = "finish"
    /\ wpc' = [wpc EXCEPT ![r] = "exited"]
    /\ collector' = [collector EXCEPT ![r] =
                        [closed |-> TRUE, shutdowns |-> @.shutdowns + 1]]
    /\ UNCHANGED <<recvs, views, cfg, cpc, self, jobs, i, j, total_frames,
                   trackers, tensordict_out, yielded, runs, sends, wchan,
                   dchan, wframes, wi, wweights, result, shutdown_calls>>

\* lines 124-127: the local collector is shut down unless it is closed, and
\* the worker returns
node_return(r) ==
    /\ wpc[r] = "finish"
    /\ wpc' = [wpc EXCEPT ![r] = "exited"]
    /\ collector' = IF ~collector[r].closed
                    THEN [collector EXCEPT ![r] =
                            [closed |-> TRUE, shutdowns |-> @.shutdowns + 1]]
                    ELSE collector
    /\ UNCHANGED <<recvs, views, cfg, cpc, self, jobs, i, j, total_frames, trackers,
                   tensordict_out, yielded, runs, sends, wchan, dchan,
                   wframes, wi, wweights, result, shutdown_calls>>

\* the worker process is killed or crashes in the middle of its collection
\* (between lines 112 and 122)
node_dies(r) ==
    /\ wpc[r] \in {"recv0", "recv", "loop"}
    /\ wpc' = [wpc EXCEPT ![r] = "dead"]
    /\ UNCHANGED <<recvs, collector, views, cfg, cpc, self, jobs, i, j,
                   total_frames, trackers, tensordict_out, yielded, runs,
                   sends, wchan, dchan, wframes, wi, wweights, result,
                   shutdown_calls>>

\* a launched worker whose process has neither returned nor died
is_alive(r) == wpc[r] \in {"launched", "join", "recv0", "recv", "loop", "finish"}

\* ---- DistributedSyncDataCollector.iterator / _iterator_dist --------------

\* the caller holds a constructed coordinator and no call is in progress
CallerHasControl == cpc \in {"idle", "yielded", "exhausted"}

\* a frame count that forgets the leading worker dimension of the buffer
Numel_slice(td) == self.frames_per_batch_corrected

\* data.numel() of a clone of the output buffer: its shape is
\* [num_workers, _frames_per_batch_corrected] (lines 303, 310, 423-424)
Numel(td) == cfg.num_workers * self.frames_per_batch_corrected

\* a loop head that tests the round counter before incrementing it
LoopHead_pre_increment(total, round) ==
    IF total < cfg.total_frames
    THEN /\ j' = round + 1
         /\ i' = 0
         /\ cpc' = IF round % cfg.update_interval = 0
                   THEN "bcast" ELSE "gather"
    ELSE /\ cpc' = "exhausted"
         /\ UNCHANGED <<i, j>>

\* a loop that stops as soon as one more batch would pass total_frames
LoopHead_no_overshoot(total, round) ==
    IF total + cfg.frames_per_batch <= cfg.total_frames
    THEN /\ j' = round + 1
         /\ i' = 0
         /\ cpc' = IF (round + 1) % cfg.update_interval = 0
                   THEN "bcast" ELSE "gather"
    ELSE /\ cpc' = "exhausted"
         /\ UNCHANGED <<i, j>>

\* lines 406-408: the loop test, the increment of j and the broadcast test
LoopHead(total, round) ==
    IF total < cfg.total_frames
    THEN /\ j' = round + 1
         /\ i' = 0
         /\ cpc' = IF (round + 1) % cfg.update_interval = 0
                   THEN "bcast" ELSE "gather"
    ELSE /\ cpc' = "exhausted"
         /\ UNCHANGED <<i, j>>

\* lines 399-408: a new generator starts with total_frames = 0 and j = -1
iterator ==
    /\ cpc \in {"idle", "exhausted"}
    /\ runs < MaxIteratorRuns
    /\ runs' = runs + 1
    /\ total_frames' = 0
    /\ LoopHead(0, -1)
    /\ result' = IF cpc' = "exhausted" THEN Raised("next", "StopIteration")
                 ELSE result
    /\ UNCHANGED <<recvs, collector, views, cfg, self, jobs, trackers, tensordict_out, yielded, sends,
                   wchan, dchan, wpc, wframes, wi, wweights, shutdown_calls>>

\* the caller asks for the next batch: the generator resumes after the yield
\* of line 425
next ==
    /\ cpc = "yielded"
    /\ LoopHead(total_frames, j)
    /\ result' = IF cpc' = "exhausted" THEN Raised("next", "StopIteration")
                 ELSE result
    /\ UNCHANGED <<recvs, collector, views, cfg, self, jobs, total_frames, trackers, tensordict_out,
                   yielded, runs, sends, wchan, dchan, wpc, wframes, wi,
                   wweights, shutdown_calls>>

\* a broadcast loop that is left after its first pass
isend_weights_first_only ==
    /\ cpc = "bcast"
    /\ i < cfg.num_workers
    /\ LET rank == Rank(i)
       IN /\ sends' = [sends EXCEPT ![rank] = Append(sends[rank], j)]
          /\ wchan' = IF WeightsEmpty THEN wchan
                      ELSE [wchan EXCEPT ![rank] =
                               Append(wchan[rank], [round |-> j])]
    /\ i' = i + 1
    /\ cpc' = "gather"
    /\ UNCHANGED <<recvs, collector, views, cfg, self, jobs, j, total_frames,
                   trackers, tensordict_out, yielded, runs, dchan, wpc,
                   wframes, wi, wweights, result, shutdown_calls>>

\* lines 409-411: self.policy_weights.isend(rank) for rank = i + 1; nothing
\* is transmitted for an empty mapping
isend_weights ==
    /\ cpc = "bcast"
    /\ i < cfg.num_workers
    /\ LET rank == Rank(i)
       IN /\ sends' = [sends EXCEPT ![rank] = Append(sends[rank], j)]
          /\ wchan' = IF WeightsEmpty THEN wchan
                      ELSE [wchan EXCEPT ![rank] =
                               Append(wchan[rank], [round |-> j])]
    /\ i' = i + 1
    /\ cpc' = IF i + 1 = cfg.num_workers THEN "gather" ELSE "bcast"
    /\ UNCHANGED <<recvs, collector, views, cfg, self, jobs, j, total_frames, trackers, tensordict_out,
                   yielded, runs, dchan, wpc, wframes, wi, wweights, result,
                   shutdown_calls>>

\* lines 413-418: a receive from rank i + 1 into slice i is posted for every i
irecv_batches ==
    /\ cpc = "gather"
    /\ trackers' = {[slice |-> k, src |-> Rank(k)] :
                        k \in 0..(cfg.num_workers - 1)}
    /\ cpc' = "wait"
    /\ UNCHANGED <<recvs, collector, views, cfg, self, jobs, i, j, total_frames, tensordict_out,
                   yielded, runs, sends, wchan, dchan, wpc, wframes, wi,
                   wweights, result, shutdown_calls>>

\* a transport that hands over the newest batch in flight instead of the
\* oldest
transfer_newest(t) ==
    /\ t \in trackers
    /\ dchan[t.src] # <<>>
    /\ tensordict_out' = [tensordict_out EXCEPT
                             ![t.slice] = dchan[t.src][Len(dchan[t.src])]]
    /\ dchan' = [dchan EXCEPT
                    ![t.src] = SubSeq(dchan[t.src], 1, Len(dchan[t.src]) - 1)]
    /\ trackers' = trackers \ {t}
    /\ yielded' = [k \in DOMAIN yielded |->
                      IF k \in views THEN tensordict_out' ELSE yielded[k]]
    /\ UNCHANGED <<recvs, collector, views, cfg, cpc, self, jobs, i, j,
                   total_frames, runs, sends, wchan, wpc, wframes, wi,
                   wweights, result, shutdown_calls>>

\* the transport completes a posted receive: the oldest batch in flight from
\* the tracker's source lands in the tracker's slice, and in every yielded
\* batch that shares the buffer's storage
transfer(t) ==
    /\ t \in trackers
    /\ dchan[t.src] # <<>>
    /\ tensordict_out' = [tensordict_out EXCEPT ![t.slice] = Head(dchan[t.src])]
    /\ dchan' = [dchan EXCEPT ![t.src] = Tail(dchan[t.src])]
    /\ trackers' = trackers \ {t}
    /\ yielded' = [k \in DOMAIN yielded |->
                      IF k \in views THEN tensordict_out' ELSE yielded[k]]
    /\ UNCHANGED <<recvs, collector, views, cfg, cpc, self, jobs, i, j, total_frames, runs,
                   sends, wchan, wpc, wframes, wi, wweights, result,
                   shutdown_calls>>

\* a wait that covers the first tracker only
AllTransfersDone_first == \A t \in trackers : t.slice # 0

\* a wait that gives up on the trackers of workers that have died
AllTransfersDone_alive == \A t \in trackers : wpc[t.src] = "dead"

\* lines 419-421: every tracker of the round has been waited for
AllTransfersDone == trackers = {}

\* a yield of the output buffer itself, without the copy
CloneIsCopy_view == FALSE

\* line 423: clone() gives the yielded batch storage of its own
CloneIsCopy == TRUE

\* lines 419-425: after the wait-all the buffer is cloned, counted and yielded
wait_and_yield ==
    /\ cpc = "wait"
    /\ AllTransfersDone
    /\ LET data == tensordict_out
       IN /\ total_frames' = total_frames + Numel(data)
          /\ yielded' = Append(yielded, data)
    /\ views' = IF CloneIsCopy THEN views ELSE views \cup {Len(yielded) + 1}
    /\ cpc' = "yielded"
    /\ result' = Returned("next")
    /\ UNCHANGED <<recvs, collector, cfg, self, jobs, i, j, trackers, tensordict_out, runs,
                   sends, wchan, dchan, wpc, wframes, wi, wweights,
                   shutdown_calls>>

\* ---- the remaining public methods -----------------------------------------

\* arguments the caller may pass
WorkerRankArgs == {0} \cup Ranks      \* 0 stands for worker_rank=None
SeedArgs == 0..1
StateDictArgs == {"empty", "saved"}

\* lines 427-428
update_policy_weights_(worker_rank) ==
    /\ CallerHasControl
    /\ result' = Raised("update_policy_weights_", "NotImplementedError")
    /\ UNCHANGED <<coordVars, workerVars, chanVars, shutdown_calls>>

\* a set_seed that is implemented and returns
set_seed_returns(seed, static_seed) ==
    /\ CallerHasControl
    /\ result' = Returned("set_seed")
    /\ UNCHANGED <<coordVars, workerVars, chanVars, shutdown_calls>>

\* lines 430-431
set_seed(seed, static_seed) ==
    /\ CallerHasControl
    /\ result' = Raised("set_seed", "NotImplementedError")
    /\ UNCHANGED <<coordVars, workerVars, chanVars, shutdown_calls>>

\* lines 433-434
state_dict ==
    /\ CallerHasControl
    /\ result' = Raised("state_dict", "NotImplementedError")
    /\ UNCHANGED <<coordVars, workerVars, chanVars, shutdown_calls>>

\* lines 436-437
load_state_dict(sd) ==
    /\ CallerHasControl
    /\ result' = Raised("load_state_dict", "NotImplementedError")
    /\ UNCHANGED <<coordVars, workerVars, chanVars, shutdown_calls>>

\* a shutdown that releases the process group on every call: the second
\* release fails
shutdown_release_twice ==
    /\ CallerHasControl
    /\ shutdown_calls < MaxShutdownCalls
    /\ shutdown_calls' = shutdown_calls + 1
    /\ result' = IF shutdown_calls = 0 THEN Returned("shutdown")
                 ELSE Raised("shutdown", "RuntimeError:process_group")
    /\ UNCHANGED <<coordVars, workerVars, chanVars>>

\* lines 439-440: the body is pass
shutdown ==
    /\ CallerHasControl
    /\ shutdown_calls < MaxShutdownCalls
    /\ shutdown_calls' = shutdown_calls + 1
    /\ result' = Returned("shutdown")
    /\ UNCHANGED <<coordVars, workerVars, chanVars>>

\* ---- specification --------------------------------------------------------

\* the steps of a construction: __init__ and the start of the workers
NextConstruct ==
    \/ init_validate
    \/ _init_workers
    \/ _init_worker_dist
    \/ init_process_group
    \/ init_master_timeout
    \/ _make_container
    \/ \E r \in Workers : node_start(r)
    \/ \E r \in Workers : node_join_timeout(r)

Next ==
    \/ NextConstruct
    \/ \E r \in Workers : node_irecv(r)
    \/ \E r \in Workers : node_loop(r)
    \/ \E r \in Workers : node_return(r)
    \/ iterator
    \/ next
    \/ isend_weights
    \/ irecv_batches
    \/ \E t \in trackers : transfer(t)
    \/ wait_and_yield
    \/ \E worker_rank \in WorkerRankArgs : update_policy_weights_(worker_rank)
    \/ \E seed \in SeedArgs, static_seed \in BOOLEAN : set_seed(seed, static_seed)
    \/ state_dict
    \/ \E sd \in StateDictArgs : load_state_dict(sd)
    \/ shutdown

Spec == Init /\ [][Next]_vars

\* the first call of iterator()
iterator_first == runs = 0 /\ iterator

\* the steps of every process but the timeouts: each process that can take a
\* step eventually takes one, and the caller keeps asking for batches
Progress ==
    \/ init_validate
    \/ _init_workers
    \/ _init_worker_dist
    \/ init_process_group
    \/ _make_container
    \/ \E r \in Workers : node_start(r)
    \/ \E r \in Workers : node_irecv(r)
    \/ \E r \in Workers : node_loop(r)
    \/ \E r \in Workers : node_return(r)
    \/ iterator_first
    \/ next
    \/ isend_weights
    \/ irecv_batches
    \/ \E t \in trackers : transfer(t)
    \/ wait_and_yield

\* a construction followed by one consumption of the iterator, with no other
\* call on the coordinator
NextCollect ==
    \/ Progress
    \/ init_master_timeout
    \/ \E r \in Workers : node_join_timeout(r)

SpecCollect == InitCollect /\ [][NextCollect]_vars /\ WF_vars(Progress)

\* a collection in which workers may die
NextFault ==
    \/ NextCollect
    \/ \E r \in Workers : node_dies(r)

SpecFault == InitCollect /\ [][NextFault]_vars

SpecConstruct == InitConstruct /\ [][NextConstruct]_vars

TypeOK ==
    /\ cpc \in {"new", "init_workers", "launch", "rendezvous", "make_container",
                "raised", "idle", "bcast", "gather", "wait", "yielded",
                "exhausted"}
    /\ \A r \in Ranks : wpc[r] \in {"none", "launched", "join", "crashed",
                                    "recv0", "recv", "loop", "finish", "exited",
                                    "dead"}
    /\ total_frames \in Nat
    /\ j \in -1..(MaxTotalFrames + 1)

\* ---- properties -----------------------------------------------------------

RECURSIVE SumFrames(_, _)
\* number of frames held by slices 0..k-1 of a batch
SumFrames(batch, k) ==
    IF k = 0 THEN 0 ELSE batch[k - 1].frames + SumFrames(batch, k - 1)

\* total_frames and frames_per_batch divisible by num_workers, and
\* total_frames divisible by frames_per_batch
ExactDivisibility ==
    /\ cfg.total_frames % cfg.num_workers = 0
    /\ cfg.frames_per_batch % cfg.num_workers = 0
    /\ cfg.total_frames % cfg.frames_per_batch = 0

\* C1: with exact divisibility the coordinator never starts more than
\* total_frames / frames_per_batch rounds, every yielded batch has num_workers
\* slices of frames_per_batch / num_workers frames (frames_per_batch frames in
\* all), and when the iterator is exhausted exactly
\* total_frames / frames_per_batch batches were yielded and the running total
\* equals total_frames.
C1_ExactBatches ==
    ExactDivisibility =>
        /\ j < cfg.total_frames \div cfg.frames_per_batch
        /\ \A k \in 1..Len(yielded) :
              /\ DOMAIN yielded[k] = 0..(cfg.num_workers - 1)
              /\ \A s \in DOMAIN yielded[k] :
                    yielded[k][s].frames =
                        cfg.frames_per_batch \div cfg.num_workers
              /\ SumFrames(yielded[k], cfg.num_workers) = cfg.frames_per_batch
        /\ cpc = "exhausted" =>
              /\ Len(yielded) = cfg.total_frames \div cfg.frames_per_batch
              /\ total_frames = cfg.total_frames

C1_Witness ==
    /\ ExactDivisibility
    /\ cfg.num_workers = 2
    /\ cpc = "exhausted"
    /\ Len(yielded) = 2
    /\ total_frames = cfg.total_frames

\* C2: when total_frames or frames_per_batch is not divisible by num_workers
\* the constructor never gets past its checks: it ends in a RuntimeError, no
\* worker is launched and the rendezvous is never entered.
C2_IndivisibleRejected ==
    (cfg.total_frames % cfg.num_workers # 0
        \/ cfg.frames_per_batch % cfg.num_workers # 0) =>
        /\ cpc \in {"new", "raised"}
        /\ jobs = <<>>
        /\ \A r \in Ranks : wpc[r] = "none"
        /\ cpc = "raised" =>
              /\ result.op = "__init__"
              /\ result.outcome = "raised"
              /\ result.error \in {"RuntimeError:total_frames",
                                   "RuntimeError:frames_per_batch"}

C2_Witness ==
    /\ cfg.total_frames % cfg.num_workers = 0
    /\ cfg.frames_per_batch % cfg.num_workers # 0
    /\ cpc = "raised"
    /\ result = Raised("__init__", "RuntimeError:frames_per_batch")
    /\ jobs = <<>>

\* the errors the constructor reports about its arguments
ConfigurationErrors == {"RuntimeError:total_frames",
                        "RuntimeError:frames_per_batch",
                        "RuntimeError:single_env", "ImportError"}

\* C3: with the single-environment collector and more than one
\* sub-environment per worker, a constructor call that has ended has ended in
\* a configuration error raised to its caller.
C3_SingleEnvRejected ==
    (IsSyncDataCollector(cfg.collector_class)
        /\ cfg.num_workers_per_collector > 1
        /\ cpc \notin {"new", "init_workers", "launch", "rendezvous",
                       "make_container"}) =>
        /\ cpc = "raised"
        /\ result.outcome = "raised"
        /\ result.error \in ConfigurationErrors

\* every batch a worker has produced and that still exists somewhere
AllBatches ==
    UNION {{dchan[r][k] : k \in 1..Len(dchan[r])} : r \in Ranks}
    \cup {b \in {tensordict_out[s] : s \in DOMAIN tensordict_out} : b.src # 0}
    \cup UNION {{yielded[k][s] : s \in DOMAIN yielded[k]} :
                   k \in 1..Len(yielded)}

\* C4: a batch a worker produced for a round N with N % update_interval = 0
\* was produced with the parameters of the round-N broadcast, which the
\* coordinator has sent to that worker.
C4_BroadcastBeforeBatch ==
    cfg.has_params =>
        \A b \in AllBatches :
            b.seq % cfg.update_interval = 0 =>
                /\ b.weights = b.seq
                /\ \E k \in 1..Len(sends[b.src]) : sends[b.src][k] = b.seq

\* a worker produced its third batch (round 2) after the second broadcast
C4_Witness ==
    /\ cfg.has_params
    /\ cfg.update_interval = 2
    /\ \E b \in AllBatches : b.seq = 2 /\ b.weights = 2

\* C5: once shutdown() has returned no worker is alive.
C5_ShutdownStopsWorkers ==
    shutdown_calls > 0 => \A r \in Workers : ~is_alive(r)

\* C6: a second or later call of shutdown() returns normally and changes
\* neither the coordinator's nor the workers' state nor the channels.
C6_ShutdownIdempotent ==
    [][(shutdown_calls >= 1 /\ shutdown_calls' = shutdown_calls + 1) =>
          /\ result' = Returned("shutdown")
          /\ UNCHANGED <<coordVars, workerVars, chanVars>>]_vars

C6_Witness ==
    /\ shutdown_calls = 2
    /\ result = Returned("shutdown")
    /\ \E r \in Workers : is_alive(r)

UnsupportedOps == {"update_policy_weights_", "set_seed", "state_dict",
                   "load_state_dict"}

\* C7: a call of update_policy_weights_, set_seed, state_dict or
\* load_state_dict ends in NotImplementedError, returns nothing and leaves
\* the frame total, the round counter, the output buffer, the worker pool and
\* all other coordinator and worker state unchanged.
C7_UnsupportedOps ==
    [][(result'.op \in UnsupportedOps /\ result' # result) =>
          /\ result'.outcome = "raised"
          /\ result'.error = "NotImplementedError"
          /\ UNCHANGED <<coordVars, workerVars, chanVars, shutdown_calls>>]_vars

C7_Witness ==
    /\ result = Raised("set_seed", "NotImplementedError")
    /\ cpc = "yielded"
    /\ Len(yielded) = 1

\* batches of worker r that have landed in the output buffer
Delivered(r) == wi[r] - Len(dchan[r])

\* C8: when k batches have been yielded every worker has delivered at least
\* k batches, and at a yield point no receive into the output buffer is
\* outstanding.
C8_GatherIsBarrier ==
    /\ \A r \in Workers : Delivered(r) >= Len(yielded)
    /\ cpc = "yielded" => trackers = {}

C8_Witness ==
    /\ cpc = "yielded"
    /\ cfg.num_workers = 2
    /\ Len(yielded) = 2
    /\ \A r \in Workers : Delivered(r) = 2

\* C9: slice i of every yielded batch holds data sent by rank i + 1.
C9_SliceOwner ==
    \A k \in 1..Len(yielded) :
        \A s \in DOMAIN yielded[k] : yielded[k][s].src = s + 1

\* worker 2 delivered its batch of the second round before worker 1 did
C9_Witness ==
    /\ cfg.num_workers = 2
    /\ Len(yielded) = 1
    /\ cpc = "wait"
    /\ trackers = {[slice |-> 0, src |-> 1]}
    /\ tensordict_out[1].seq = 1

\* C10: with update_after_each_batch set, every round whose gather has
\* started has sent the parameters to every worker.
C10_UpdateAfterEachBatch ==
    (cfg.update_after_each_batch /\ cpc \in {"gather", "wait"}) =>
        \A r \in Workers :
            /\ sends[r] # <<>>
            /\ sends[r][Len(sends[r])] = j

\* C11: when the constructor has ended in an error, no worker it launched is
\* still alive.
C11_AbortLeavesNoWorker ==
    cpc = "raised" => \A r \in Ranks : ~is_alive(r)

\* C12: an iterator started after the first one was exhausted is exhausted at
\* once: it sends no parameters, posts no receive and yields nothing.
C12_NonRestartable ==
    runs >= 2 => (cpc = "exhausted" /\ trackers = {})

\* C13: in a round with a scheduled broadcast the parameters have been sent
\* to every worker when the batch receives are posted, and no batch receive
\* is pending while the sends are being issued.
C13_BroadcastBeforeGather ==
    /\ cpc = "bcast" => trackers = {}
    /\ (cpc \in {"gather", "wait"} /\ j % cfg.update_interval = 0) =>
          \A r \in Workers :
              /\ sends[r] # <<>>
              /\ sends[r][Len(sends[r])] = j

C13_Witness ==
    /\ cpc = "wait"
    /\ cfg.num_workers = 2
    /\ cfg.update_interval = 1
    /\ j = 1
    /\ \A r \in Workers : sends[r] = <<0, 1>>

RECURSIVE BroadcastRounds(_)
\* the rounds 0..n that are multiples of update_interval, in order
BroadcastRounds(n) ==
    IF n < 0 THEN <<>>
    ELSE IF n % cfg.update_interval = 0
         THEN Append(BroadcastRounds(n - 1), n)
         ELSE BroadcastRounds(n - 1)

\* the last round whose broadcast step for rank r is over
SendRound(r) == IF cpc = "bcast" /\ r > i THEN j - 1 ELSE j

\* C14: the sends issued to a worker are exactly one per round j with
\* j % update_interval = 0, in the order of the rounds (after a restart: the
\* rounds of the first run followed by those of the second); ranks outside
\* 1..num_workers get none.
C14_SendSchedule ==
    /\ \A r \in Workers :
          sends[r] = IF runs <= 1 THEN BroadcastRounds(SendRound(r))
                     ELSE BroadcastRounds(Len(yielded) - 1)
                              \o BroadcastRounds(SendRound(r))
    /\ \A r \in Ranks \ Workers : sends[r] = <<>>

C14_Witness ==
    /\ runs = 1
    /\ cfg.update_interval = 2
    /\ cpc = "wait"
    /\ j = 2
    /\ sends[1] = <<0, 2>>

RECURSIVE RecvsAfter(_)
\* the receives a worker has posted once it has sent n batches: the initial
\* one, then one for round k after batch k - 1 when the k * frames-per-batch
\* frames collected are below the budget, k is a multiple of update_interval
\* and the mapping is not empty
RecvsAfter(n) ==
    IF n = 0 THEN <<0>>
    ELSE IF /\ n * self.frames_per_batch_corrected
                   < self.total_frames_per_collector
            /\ n % cfg.update_interval = 0
            /\ ~WeightsEmpty
         THEN Append(RecvsAfter(n - 1), n)
         ELSE RecvsAfter(n - 1)

\* C15: a worker posts one receive before its first batch and, after the
\* batch that precedes round k, one more exactly under the three conditions.
C15_RecvSchedule ==
    \A r \in Workers :
        IF wpc[r] \in {"none", "launched", "join", "crashed"}
        THEN recvs[r] = <<>> /\ wi[r] = 0
        ELSE /\ recvs[r] = RecvsAfter(wi[r])
             /\ wpc[r] = "recv0" => wi[r] = 0

C15_Witness ==
    /\ cfg.has_params
    /\ cfg.update_interval = 2
    /\ wpc[1] = "recv"
    /\ wi[1] = 2
    /\ recvs[1] = <<0, 2>>

\* rounds gathered from worker r since parameters were last sent to it
GatheredSinceBroadcast(r) ==
    IF sends[r] = <<>> THEN Len(yielded)
    ELSE Len(yielded) - sends[r][Len(sends[r])]

\* C16: between calls, the staleness counter of every worker is the number
\* of rounds gathered since the last broadcast to it.
C16_StalenessTracked ==
    (CallerHasControl /\ runs <= 1) =>
        \A r \in Workers :
            self.batches_since_weight_update[r] = GatheredSinceBroadcast(r)

\* every worker has returned, its collector closed
AllWorkersExited ==
    \A r \in Workers : wpc[r] = "exited" /\ collector[r].closed

\* C17: after a successful construction, with the iterator consumed and no
\* shutdown() call, every worker eventually returns; it has then called
\* shutdown on its collector once if the collector was not closed and not at
\* all otherwise, and never more than once.
C17_WorkersExit ==
    /\ [](\A r \in Workers :
            /\ collector[r].shutdowns <= 1
            /\ wpc[r] = "exited" =>
                  /\ collector[r].closed
                  /\ collector[r].shutdowns =
                         IF CollectorClosedAtEnd THEN 0 ELSE 1
                  /\ wframes[r] >= self.total_frames_per_collector)
    /\ (cpc = "idle") ~> (AllWorkersExited /\ shutdown_calls = 0)

C17_Witness ==
    /\ cfg.num_workers = 2
    /\ cpc = "exhausted"
    /\ shutdown_calls = 0
    /\ AllWorkersExited
    /\ \A r \in Workers : collector[r].shutdowns = 1

\* C18: once a worker has died having sent wi batches, no batch of round wi
\* or later is yielded; a coordinator waiting in that round stays there, and
\* the pending call neither returns nor raises.
C18_DeadWorkerBlocks ==
    /\ [](\A r \in Workers : wpc[r] = "dead" => Len(yielded) <= wi[r])
    /\ [][(\E r \in Workers : wpc[r] = "dead" /\ cpc = "wait" /\ j = wi[r]) =>
             (cpc' = "wait" /\ j' = j /\ result' = result
                /\ yielded' = yielded)]_vars

C18_Witness ==
    /\ cfg.num_workers = 2
    /\ wpc[2] = "dead"
    /\ wi[2] = 1
    /\ cpc = "wait"
    /\ j = 1
    /\ trackers = {[slice |-> 1, src |-> 2]}

\* C19: a step never changes a batch that was yielded before; a step that
\* yields a batch adds the frames of that batch to the running total; within
\* one run of the iterator the total never decreases.
C19_Snapshot ==
    [][/\ \A k \in 1..Len(yielded) :
             k <= Len(yielded') /\ yielded'[k] = yielded[k]
       /\ yielded' # yielded =>
             /\ Len(yielded') = Len(yielded) + 1
             /\ total_frames' = total_frames
                    + SumFrames(yielded'[Len(yielded')], cfg.num_workers)
       /\ runs' = runs => total_frames' >= total_frames]_vars

\* the buffer holds the data of round 1 while the batch of round 0 is kept
C19_Witness ==
    /\ cfg.num_workers = 2
    /\ Len(yielded) = 1
    /\ cpc = "wait"
    /\ trackers = {}
    /\ \A s \in DOMAIN tensordict_out :
          tensordict_out[s].seq = 1 /\ yielded[1][s].seq = 0

\* weight messages handed to the transport for rank r / receives rank r has
\* posted with the transport: none for an empty mapping
MsgSends(r) == IF WeightsEmpty THEN <<>> ELSE sends[r]
MsgRecvs(r) == IF WeightsEmpty THEN <<>> ELSE recvs[r]

\* receives of rank r that have completed
RecvsDone(r) ==
    Len(MsgRecvs(r)) - (IF wpc[r] \in {"recv0", "recv"} /\ ~WeightsEmpty
                        THEN 1 ELSE 0)

C21_RoundsNotMixed ==
    /\ \A k \in 1..Len(yielded) :
          \A s \in DOMAIN yielded[k] :
              /\ yielded[k][s].src = Rank(s)
              /\ yielded[k][s].seq = k - 1
    /\ \A r \in Workers :
          \A m \in 1..Len(dchan[r]) :
              /\ dchan[r][m].src = r
              /\ dchan[r][m].seq = Delivered(r) + m - 1

\* two batches were yielded while a worker had at least two more in flight
C21_Witness ==
    /\ Len(yielded) = 2
    /\ cpc = "yielded"
    /\ \E r \in Workers :
          /\ Len(dchan[r]) >= 2
          /\ yielded[2][r - 1].seq = 1
          /\ wi[r] >= 4

\* the number of batches of size b needed to reach a frames
Ceil(a, b) == (a + b - 1) \div b

\* C22: when total_frames is not a multiple of frames_per_batch, the
\* coordinator runs ceil(total_frames / frames_per_batch) rounds and no more,
\* every worker produces exactly that many batches, so that the last gather
\* completes and nothing is left in flight, and the final running total is
\* above total_frames by less than frames_per_batch.
C22_RoundedUp ==
    cfg.total_frames % cfg.frames_per_batch # 0 =>
        LET rounds == Ceil(cfg.total_frames, cfg.frames_per_batch)
        IN /\ j < rounds
           /\ Len(yielded) <= rounds
           /\ \A r \in Workers :
                 /\ wi[r] <= rounds
                 /\ wpc[r] \in {"finish", "exited"} => wi[r] = rounds
           /\ cpc = "exhausted" =>
                 /\ Len(yielded) = rounds
                 /\ total_frames > cfg.total_frames
                 /\ total_frames - cfg.total_frames < cfg.frames_per_batch
                 /\ \A r \in Workers : wi[r] = rounds /\ dchan[r] = <<>>

\* three frames asked for in batches of two: two rounds, four frames
C22_Witness ==
    /\ cfg.total_frames % cfg.frames_per_batch # 0
    /\ cfg.total_frames > cfg.frames_per_batch
    /\ cpc = "exhausted"
    /\ Len(yielded) = 2
    /\ total_frames = 2 * cfg.frames_per_batch
    /\ \A r \in Workers : wpc[r] = "exited" /\ wi[r] = 2

====
